---- MODULE Spec2Model ----
(***************************************************************************)
(* Model of backend/server.py: the upload and delete request handlers of   *)
(* the research assistant, the in-memory catalog documents_db, the Chroma  *)
(* collection and the upload folder they share.                            *)
(*                                                                         *)
(* Each request handler is run by a worker thread of Flask's server; a     *)
(* handler is split into one action per access to shared state (catalog,   *)
(* collection, upload folder).  Spec lets the workers interleave, SpecSeq  *)
(* runs one request at a time, SpecUp interleaves upload requests only.    *)
(***************************************************************************)
EXTENDS Integers, Sequences, FiniteSets, TLC

(* ---------------------------------------------------------------- bounds *)
\* requests served over a run, one at a time (SpecSeq)
MaxRequests == 3
\* requests served over a run by concurrent workers (Spec, SpecUp)
MaxParallel == 3
\* largest number of chunks of an uploaded text
MaxChunks == 2
\* last value of the timestamp clock (datetime.now() to the second)
MaxClock == 1

\* longest text handed to chunk_text character by character
MaxTextLen == 4
\* largest chunk_size handed to chunk_text
MaxChunkSize == 3

(* ------------------------------------------------------------- constants *)
CHUNK_SIZE == 1000
CHUNK_OVERLAP == 200
\* data.get('top_k', 3) of search_documents, n_results=3 of chat
DEFAULT_TOP_K == 3
CHAT_N_RESULTS == 3

\* worker threads serving requests
Procs == {"w1", "w2"}
\* secured filenames of uploaded files
Filenames == {"a.txt"}
\* identities of extracted text contents
Tags == {"A", "B"}
\* ids a delete request may name
DocIds == 1 .. MaxRequests - 1

VARIABLES documents_db, collection, uploads, clock, pc, local,
          started, issued, pre, chain, chunker, query

vars == <<documents_db, collection, uploads, clock, pc, local,
          started, issued, pre, chain, chunker, query>>

\* the call of chunk_text and the search or chat request followed step by step
aux == <<chunker, query>>

(* ------------------------------------------------------------ data model *)
NoPath == <<0, "">>
NoText == [tag |-> "", len |-> 0, ok |-> FALSE]
NoDoc == [id |-> 0, filename |-> "", file_path |-> NoPath, chunk_count |-> 0,
          char_count |-> 0, text_preview |-> ""]

\* extracted texts: a content identity and a length in characters, with no
\* whitespace-only window; the lengths sit on the chunk-count boundaries
TextLens == {0} \cup {(k - 1) * (CHUNK_SIZE - CHUNK_OVERLAP) + 1 : k \in 1 .. MaxChunks}
Texts == [tag : Tags, len : TextLens, ok : {TRUE}]

Min(a, b) == IF a < b THEN a ELSE b

RECURSIVE chunk_loop(_, _, _, _)
\* the while loop of chunk_text from cursor start on, on a text of
\* text_length characters none of whose windows is whitespace-only
chunk_loop(start, text_length, chunk_size, overlap) ==
  IF start < text_length
  THEN <<[start_pos |-> start, end_pos |-> Min(start + chunk_size, text_length)]>>
         \o chunk_loop(start + chunk_size - overlap, text_length, chunk_size, overlap)
  ELSE <<>>

chunk_text(text) == chunk_loop(0, text.len, CHUNK_SIZE, CHUNK_OVERLAP)

\* f"doc_{doc_id}_chunk_{i}"
ChunkId(doc_id, i) == <<"doc", doc_id, "chunk", i>>

\* collection.count()
Count(coll) == Cardinality(DOMAIN coll)

\* collection.add of one entry; an id already stored is either left as it is
\* or replaced, as the store decides (dup)
CollectionAdd(coll, id, entry, dup) ==
  IF id \in DOMAIN coll /\ dup = "keep" THEN coll
  ELSE [k \in DOMAIN coll \cup {id} |-> IF k = id THEN entry ELSE coll[k]]

\* collection.delete(ids): ids not stored are ignored
CollectionDelete(coll, ids) == [k \in DOMAIN coll \ ids |-> coll[k]]

\* next((d for d in documents_db if d['id'] == doc_id), None)
RECURSIVE FindFrom(_, _, _)
FindFrom(db, doc_id, n) ==
  IF n > Len(db) THEN NoDoc
  ELSE IF db[n].id = doc_id THEN db[n] ELSE FindFrom(db, doc_id, n + 1)

FindDoc(db, doc_id) == FindFrom(db, doc_id, 1)

\* [d for d in documents_db if d['id'] != doc_id]
FilterOut(db, doc_id) == SelectSeq(db, LAMBDA d : d.id # doc_id)

Idle == [op |-> "none", filename |-> "", file_path |-> NoPath, text |-> NoText,
         chunks |-> <<>>, doc_id |-> 0, i |-> 0, doc |-> NoDoc,
         index_call |-> "none", newdb |-> <<>>, status |-> 0, error |-> ""]

\* no call of chunk_text followed, no search or chat request in progress
NoCall == [pc |-> "none", text |-> <<>>, chunk_size |-> 0, overlap |-> 0,
           start |-> 0, chunks |-> <<>>]
NoAnswer == [ids |-> <<>>, documents |-> <<>>, metadatas |-> <<>>, distances |-> <<>>]
NoQuery == [op |-> "none", query |-> "", top_k |-> 0, catalog_len |-> 0,
            encode_calls |-> 0, query_calls |-> 0, answer |-> NoAnswer,
            results |-> <<>>, system_prompt |-> <<>>, status |-> 0]

Snapshot == [db |-> documents_db, index |-> collection, files |-> uploads]
NoChain == [id |-> 0, count |-> 0]

Init ==
  /\ documents_db = <<>>
  /\ collection = <<>>
  /\ uploads = {}
  /\ clock = 0
  /\ pc = [p \in Procs |-> "idle"]
  /\ local = [p \in Procs |-> Idle]
  /\ started = 0
  /\ issued = {}
  /\ pre = Snapshot
  /\ chain = NoChain
  /\ chunker = NoCall
  /\ query = NoQuery

\* the handler of p returns its response
Respond(p, l, status, error) ==
  /\ pc' = [pc EXCEPT ![p] = "done"]
  /\ local' = [local EXCEPT ![p] = [l EXCEPT !.status = status, !.error = error]]

Goto(p, label, l) ==
  /\ pc' = [pc EXCEPT ![p] = label]
  /\ local' = [local EXCEPT ![p] = l]

(* ------------------------------------------------------- upload_document *)
\* a request without a file, with an empty or a disallowed filename
UploadReject(p) ==
  /\ pc[p] = "idle"
  /\ \E e \in {"No file provided", "No file selected", "File type not allowed"} :
       Respond(p, [Idle EXCEPT !.op = "upload"], 400, e)
  /\ started' = started + 1
  /\ pre' = Snapshot
  /\ chain' = NoChain
  /\ UNCHANGED <<documents_db, collection, uploads, clock, issued, aux>>

\* the filename is secured and stamped, the file saved
UploadSave(p) ==
  /\ pc[p] = "idle"
  /\ \E fn \in Filenames, t \in clock .. MaxClock :
       /\ clock' = t
       /\ uploads' = uploads \cup {<<t, fn>>}
       /\ Goto(p, "extract", [Idle EXCEPT !.op = "upload", !.filename = fn,
                                          !.file_path = <<t, fn>>])
  /\ started' = started + 1
  /\ pre' = Snapshot
  /\ chain' = NoChain
  /\ UNCHANGED <<documents_db, collection, issued, aux>>

\* os.remove(file_path) of the error paths: raises when the file is gone,
\* and the handler's except clause answers 500 then
RemoveThen(p, status, error) ==
  /\ uploads' = uploads \ {local[p].file_path}
  /\ IF local[p].file_path \in uploads
     THEN Respond(p, local[p], status, error)
     ELSE Respond(p, local[p], 500, "Upload failed")

\* doc_metadata of the upload whose locals are l
DocMetadata(l) ==
  [id |-> l.doc_id, filename |-> l.filename, file_path |-> l.file_path,
   chunk_count |-> Len(l.chunks), char_count |-> l.text.len,
   text_preview |-> l.text.tag]

\* UploadExtract with the catalog record created before the text is checked
\* and left behind when the upload is rejected
UploadExtractKeepsRecord(p) ==
  /\ pc[p] = "extract"
  /\ \E text_content \in Texts \cup {NoText} :
       IF ~text_content.ok \/ chunk_text(text_content) = <<>>
       THEN /\ RemoveThen(p, IF text_content.ok THEN 400 ELSE 500,
                          IF text_content.ok
                          THEN "Document is empty or could not be chunked"
                          ELSE "Failed to extract text from document")
            /\ documents_db' = Append(documents_db,
                  DocMetadata([local[p] EXCEPT !.doc_id = Len(documents_db) + 1]))
       ELSE /\ Goto(p, "assign", [local[p] EXCEPT !.text = text_content,
                                                   !.chunks = chunk_text(text_content)])
            /\ UNCHANGED <<uploads, documents_db>>
  /\ UNCHANGED <<collection, clock, started, issued, pre, chain, aux>>

\* process_document and chunk_text
UploadExtract(p) ==
  /\ pc[p] = "extract"
  /\ \E text_content \in Texts \cup {NoText} :
       IF ~text_content.ok
       THEN RemoveThen(p, 500, "Failed to extract text from document")
       ELSE IF chunk_text(text_content) = <<>>
       THEN RemoveThen(p, 400, "Document is empty or could not be chunked")
       ELSE /\ Goto(p, "assign", [local[p] EXCEPT !.text = text_content,
                                                   !.chunks = chunk_text(text_content)])
            /\ UNCHANGED uploads
  /\ UNCHANGED <<documents_db, collection, clock, started, issued, pre, chain, aux>>

\* doc_id = len(documents_db) + 1
UploadAssign(p) ==
  /\ pc[p] = "assign"
  /\ Goto(p, "index", [local[p] EXCEPT !.doc_id = Len(documents_db) + 1, !.i = 0])
  /\ UNCHANGED <<documents_db, collection, uploads, clock, started, issued, pre, chain, aux>>

\* the metadata and text stored with chunk i of the upload of p
Entry(l, i) ==
  [doc_id |-> l.doc_id, filename |-> l.filename, chunk_index |-> i,
   start_pos |-> l.chunks[i + 1].start_pos, end_pos |-> l.chunks[i + 1].end_pos,
   text |-> l.text.tag]

\* one turn of the loop over the chunks: encode, then collection.add
UploadIndex(p) ==
  /\ pc[p] = "index"
  /\ LET l == local[p]
         id == ChunkId(l.doc_id, l.i)
     IN \/ /\ \E e \in {"encode failed", "add failed"} :
                Respond(p, l, 500, "Upload failed")
           /\ UNCHANGED collection
        \/ \E dup \in {"keep", "replace"} :
             /\ collection' = CollectionAdd(collection, id, Entry(l, l.i), dup)
             /\ Goto(p, IF l.i + 1 < Len(l.chunks) THEN "index" ELSE "register",
                     [l EXCEPT !.i = l.i + 1])
  /\ UNCHANGED <<documents_db, uploads, clock, started, issued, pre, chain, aux>>

\* documents_db.append(doc_metadata) and the 201 response
UploadRegister(p) ==
  /\ pc[p] = "register"
  /\ documents_db' = Append(documents_db, DocMetadata(local[p]))
  /\ issued' = issued \cup {local[p].doc_id}
  /\ Respond(p, local[p], 201, "")
  /\ UNCHANGED <<collection, uploads, clock, started, pre, chain, aux>>

(* ------------------------------------------------------- delete_document *)
\* DeleteFind with the catalog entry removed at once, before the embeddings
DeleteFindRemovesFirst(p) ==
  /\ pc[p] = "idle"
  /\ \E doc_id \in DocIds :
       /\ LET doc == FindDoc(documents_db, doc_id)
              l == [Idle EXCEPT !.op = "delete", !.doc_id = doc_id, !.doc = doc]
          IN IF doc = NoDoc
             THEN Respond(p, l, 404, "Document not found")
             ELSE Goto(p, "del_index", l)
       /\ documents_db' = FilterOut(documents_db, doc_id)
       /\ chain' = IF doc_id = chain.id THEN chain ELSE NoChain
  /\ started' = started + 1
  /\ pre' = Snapshot
  /\ UNCHANGED <<collection, uploads, clock, issued, aux>>

\* DeleteFind without the not-found check: subscripting None raises, and the
\* except clause answers 500
DeleteFindNoCheck(p) ==
  /\ pc[p] = "idle"
  /\ \E doc_id \in DocIds :
       /\ LET doc == FindDoc(documents_db, doc_id)
              l == [Idle EXCEPT !.op = "delete", !.doc_id = doc_id, !.doc = doc]
          IN IF doc = NoDoc
             THEN Respond(p, l, 500, "Delete failed")
             ELSE Goto(p, "del_index", l)
       /\ chain' = IF doc_id = chain.id THEN chain ELSE NoChain
  /\ started' = started + 1
  /\ pre' = Snapshot
  /\ UNCHANGED <<documents_db, collection, uploads, clock, issued, aux>>

\* the lookup of the document; 404 when there is none
DeleteFind(p) ==
  /\ pc[p] = "idle"
  /\ \E doc_id \in DocIds :
       /\ LET doc == FindDoc(documents_db, doc_id)
              l == [Idle EXCEPT !.op = "delete", !.doc_id = doc_id, !.doc = doc]
          IN IF doc = NoDoc
             THEN Respond(p, l, 404, "Document not found")
             ELSE Goto(p, "del_index", l)
       /\ chain' = IF doc_id = chain.id THEN chain ELSE NoChain
  /\ started' = started + 1
  /\ pre' = Snapshot
  /\ UNCHANGED <<documents_db, collection, uploads, clock, issued, aux>>

\* the chunk ids recomputed from chunk_count
ChunkIds(doc_id, chunk_count) == {ChunkId(doc_id, i) : i \in 0 .. chunk_count - 1}

\* collection.delete(ids=chunk_ids); an exception is printed and dropped
DeleteIndex(p) ==
  /\ pc[p] = "del_index"
  /\ \/ /\ collection' = CollectionDelete(collection,
                            ChunkIds(local[p].doc_id, local[p].doc.chunk_count))
        /\ Goto(p, "del_exists", [local[p] EXCEPT !.index_call = "deleted"])
     \/ /\ UNCHANGED collection
        /\ Goto(p, "del_exists", [local[p] EXCEPT !.index_call = "raised"])
  /\ UNCHANGED <<documents_db, uploads, clock, started, issued, pre, chain, aux>>

\* os.path.exists(doc['file_path'])
DeleteExists(p) ==
  /\ pc[p] = "del_exists"
  /\ Goto(p, IF local[p].doc.file_path \in uploads THEN "del_remove" ELSE "del_filter",
          local[p])
  /\ UNCHANGED <<documents_db, collection, uploads, clock, started, issued, pre, chain, aux>>

\* os.remove(doc['file_path']); raises when the file is gone by now
DeleteRemove(p) ==
  /\ pc[p] = "del_remove"
  /\ uploads' = uploads \ {local[p].doc.file_path}
  /\ IF local[p].doc.file_path \in uploads
     THEN Goto(p, "del_filter", local[p])
     ELSE Respond(p, local[p], 500, "Delete failed")
  /\ UNCHANGED <<documents_db, collection, clock, started, issued, pre, chain, aux>>

\* the list comprehension reads the catalog
DeleteFilter(p) ==
  /\ pc[p] = "del_filter"
  /\ Goto(p, "del_rebind",
          [local[p] EXCEPT !.newdb = FilterOut(documents_db, local[p].doc_id)])
  /\ UNCHANGED <<documents_db, collection, uploads, clock, started, issued, pre, chain, aux>>

\* documents_db is rebound to the filtered list; the 200 response
DeleteRebind(p) ==
  /\ pc[p] = "del_rebind"
  /\ documents_db' = local[p].newdb
  /\ Respond(p, local[p], 200, "")
  /\ UNCHANGED <<collection, uploads, clock, started, issued, pre, chain, aux>>

(* ----------------------------------------------------------------------- *)
\* the response is delivered and the worker is free again
Return(p) ==
  /\ pc[p] = "done"
  /\ pc' = [pc EXCEPT ![p] = "idle"]
  /\ local' = [local EXCEPT ![p] = Idle]
  /\ chain' = IF local[p].op = "upload" /\ local[p].status = 201
              THEN [id |-> local[p].doc_id, count |-> Count(pre.index)]
              ELSE NoChain
  /\ pre' = Snapshot
  /\ UNCHANGED <<documents_db, collection, uploads, clock, started, issued, aux>>

AllIdle == \A p \in Procs : pc[p] = "idle"

Step(p) ==
  \/ UploadExtract(p)
  \/ UploadAssign(p)
  \/ UploadIndex(p)
  \/ UploadRegister(p)
  \/ DeleteIndex(p)
  \/ DeleteExists(p)
  \/ DeleteRemove(p)
  \/ DeleteFilter(p)
  \/ DeleteRebind(p)
  \/ Return(p)

\* requests served concurrently by the worker threads
Next ==
  \E p \in Procs :
    \/ started < MaxParallel /\ UploadReject(p)
    \/ started < MaxParallel /\ UploadSave(p)
    \/ started < MaxParallel /\ DeleteFind(p)
    \/ Step(p)

Spec == Init /\ [][Next]_vars

\* requests served one at a time, by one worker
NextSeq ==
  \E p \in {"w1"} :
    \/ AllIdle /\ started < MaxRequests /\ UploadReject(p)
    \/ AllIdle /\ started < MaxRequests /\ UploadSave(p)
    \/ AllIdle /\ started < MaxRequests /\ DeleteFind(p)
    \/ Step(p)

SpecSeq == Init /\ [][NextSeq]_vars

\* upload requests only, served concurrently
NextUp ==
  \E p \in Procs :
    \/ started < MaxParallel /\ UploadReject(p)
    \/ started < MaxParallel /\ UploadSave(p)
    \/ UploadExtract(p)
    \/ UploadAssign(p)
    \/ UploadIndex(p)
    \/ UploadRegister(p)
    \/ Return(p)

SpecUp == Init /\ [][NextUp]_vars

(* ------------------------------------------------------------ chunk_text *)
\* characters of the texts, and those str.strip() removes
Chars == {"a", "b", " "}
Whitespace == {" ", "\t", "\n", "\r"}

RECURSIVE TextsOfLen(_)
TextsOfLen(n) ==
  IF n = 0 THEN {<<>>}
  ELSE {Append(t, c) : t \in TextsOfLen(n - 1), c \in Chars}

\* the text of the documented example, chunked with chunk_size 4, overlap 1
ScenarioText == <<"a", "b", "c", "d", "e", "f", "g", "h", "i", "j">>

\* the texts chunk_text is called with by upload_document, as long as TextLens
SolidText(n) == [j \in 1 .. n |-> "a"]

\* the calls of chunk_text followed: every short text with every chunk_size
\* and overlap the contract allows, the documented example, and the calls of
\* upload_document with the configured parameters
ChunkCalls ==
  {[text |-> t, chunk_size |-> c, overlap |-> o] :
     t \in UNION {TextsOfLen(n) : n \in 0 .. MaxTextLen},
     c \in 1 .. MaxChunkSize, o \in 0 .. MaxChunkSize - 1}
  \cup {[text |-> ScenarioText, chunk_size |-> 4, overlap |-> 1]}
  \cup {[text |-> SolidText(n), chunk_size |-> CHUNK_SIZE, overlap |-> CHUNK_OVERLAP] :
          n \in TextLens}

\* text[start:end]
Slice(text, start, end) == SubSeq(text, start + 1, Min(end, Len(text)))

\* chunk.strip()
RECURSIVE LStrip(_)
LStrip(t) == IF t # <<>> /\ Head(t) \in Whitespace THEN LStrip(Tail(t)) ELSE t
RECURSIVE RStrip(_)
RStrip(t) ==
  IF t # <<>> /\ t[Len(t)] \in Whitespace THEN RStrip(SubSeq(t, 1, Len(t) - 1)) ELSE t
Strip(t) == RStrip(LStrip(t))

InitChunk ==
  /\ documents_db = <<>>
  /\ collection = <<>>
  /\ uploads = {}
  /\ clock = 0
  /\ pc = [p \in Procs |-> "idle"]
  /\ local = [p \in Procs |-> Idle]
  /\ started = 0
  /\ issued = {}
  /\ pre = Snapshot
  /\ chain = NoChain
  /\ query = NoQuery
  /\ \E call \in ChunkCalls :
       /\ call.overlap < call.chunk_size
       /\ chunker = [pc |-> "loop", text |-> call.text, chunk_size |-> call.chunk_size,
                     overlap |-> call.overlap, start |-> 0, chunks |-> <<>>]

handlers == <<documents_db, collection, uploads, clock, pc, local,
              started, issued, pre, chain, query>>

\* the loop body with end_pos left at start + chunk_size
ChunkIterUnclippedEnd ==
  /\ chunker.pc = "loop"
  /\ chunker.start < Len(chunker.text)
  /\ LET end == chunker.start + chunker.chunk_size
         chunk == Slice(chunker.text, chunker.start, end)
     IN chunker' = [chunker EXCEPT
          !.chunks = IF Strip(chunk) # <<>>
                     THEN Append(@, [text |-> chunk, start_pos |-> chunker.start,
                                     end_pos |-> end])
                     ELSE @,
          !.start = @ + chunker.chunk_size - chunker.overlap]
  /\ UNCHANGED handlers

\* the loop body with the cursor advanced by chunk_size, the overlap forgotten
ChunkIterNoOverlap ==
  /\ chunker.pc = "loop"
  /\ chunker.start < Len(chunker.text)
  /\ LET end == chunker.start + chunker.chunk_size
         chunk == Slice(chunker.text, chunker.start, end)
     IN chunker' = [chunker EXCEPT
          !.chunks = IF Strip(chunk) # <<>>
                     THEN Append(@, [text |-> chunk, start_pos |-> chunker.start,
                                     end_pos |-> Min(end, Len(chunker.text))])
                     ELSE @,
          !.start = @ + chunker.chunk_size]
  /\ UNCHANGED handlers

\* the loop body with "if chunk:" for "if chunk.strip():"
ChunkIterKeepsBlank ==
  /\ chunker.pc = "loop"
  /\ chunker.start < Len(chunker.text)
  /\ LET end == chunker.start + chunker.chunk_size
         chunk == Slice(chunker.text, chunker.start, end)
     IN chunker' = [chunker EXCEPT
          !.chunks = IF chunk # <<>>
                     THEN Append(@, [text |-> chunk, start_pos |-> chunker.start,
                                     end_pos |-> Min(end, Len(chunker.text))])
                     ELSE @,
          !.start = @ + chunker.chunk_size - chunker.overlap]
  /\ UNCHANGED handlers

\* the loop body with the cursor set back from the clipped end of the chunk
ChunkIterFromClippedEnd ==
  /\ chunker.pc = "loop"
  /\ chunker.start < Len(chunker.text)
  /\ LET end == chunker.start + chunker.chunk_size
         chunk == Slice(chunker.text, chunker.start, end)
     IN chunker' = [chunker EXCEPT
          !.chunks = IF Strip(chunk) # <<>>
                     THEN Append(@, [text |-> chunk, start_pos |-> chunker.start,
                                     end_pos |-> Min(end, Len(chunker.text))])
                     ELSE @,
          !.start = Min(end, Len(chunker.text)) - chunker.overlap]
  /\ UNCHANGED handlers

\* one turn of the while loop of chunk_text
ChunkIter ==
  /\ chunker.pc = "loop"
  /\ chunker.start < Len(chunker.text)
  /\ LET end == chunker.start + chunker.chunk_size
         chunk == Slice(chunker.text, chunker.start, end)
     IN chunker' = [chunker EXCEPT
          !.chunks = IF Strip(chunk) # <<>>
                     THEN Append(@, [text |-> chunk, start_pos |-> chunker.start,
                                     end_pos |-> Min(end, Len(chunker.text))])
                     ELSE @,
          !.start = @ + chunker.chunk_size - chunker.overlap]
  /\ UNCHANGED handlers

\* the loop ends and chunk_text returns chunks
ChunkReturn ==
  /\ chunker.pc = "loop"
  /\ ~(chunker.start < Len(chunker.text))
  /\ chunker' = [chunker EXCEPT !.pc = "returned"]
  /\ UNCHANGED handlers

NextChunk == ChunkIter \/ ChunkReturn

\* a call of chunk_text runs on until it returns
SpecChunk == InitChunk /\ [][NextChunk]_vars /\ WF_vars(NextChunk)

(* ------------------------------------------------------- search and chat *)
\* the query texts: about the content of one of the Tags; "" is a missing query
Queries == Tags
TopKs == 1 .. DEFAULT_TOP_K

\* embedding_model.encode(text)
Encode(text) == <<"embedding", text>>

\* the string stored as the document of an index entry: the slice of the
\* uploaded text from start_pos to end_pos
Document(e) == <<e.text, e.start_pos, e.end_pos>>
\* the metadata stored with an index entry
Metadata(e) == [doc_id |-> e.doc_id, filename |-> e.filename,
                chunk_index |-> e.chunk_index,
                start_pos |-> e.start_pos, end_pos |-> e.end_pos]

\* cosine distance of a query embedding to the embedding of a stored chunk:
\* chunks of a text about the query are nearer than all others
Distance(embedding, e) ==
  (IF embedding[2] = e.text THEN 0 ELSE MaxChunks) + e.chunk_index

\* collection.query(query_embeddings=[embedding], n_results=k): the
\* min(k, count) nearest entries, nearest first, entries at the same distance
\* in any order
CollectionQuery(coll, embedding, k) ==
  LET n == Min(k, Cardinality(DOMAIN coll))
      d(id) == Distance(embedding, coll[id])
  IN {ids \in [1 .. n -> DOMAIN coll] :
        /\ \A i, j \in 1 .. n : i < j => ids[i] # ids[j] /\ d(ids[i]) <= d(ids[j])
        /\ \A id \in DOMAIN coll :
             (\A i \in 1 .. n : ids[i] # id) => \A i \in 1 .. n : d(ids[i]) <= d(id)}

\* the results dictionary of collection.query for one query embedding
AnswerOf(coll, embedding, ids) ==
  [ids |-> ids,
   documents |-> [i \in DOMAIN ids |-> Document(coll[ids[i]])],
   metadatas |-> [i \in DOMAIN ids |-> Metadata(coll[ids[i]])],
   distances |-> [i \in DOMAIN ids |-> Distance(embedding, coll[ids[i]])]]

\* the loop with the results taken last to first
FormatResultsReversed(answer) ==
  LET n == Len(answer.documents)
  IN [i \in 1 .. n |-> [text |-> answer.documents[n + 1 - i],
                        metadata |-> answer.metadatas[n + 1 - i],
                        distance |-> answer.distances[n + 1 - i]]]

\* the loop of search_documents that builds search_results
FormatResults(answer) ==
  [i \in 1 .. Len(answer.documents) |->
     [text |-> answer.documents[i],
      metadata |-> answer.metadatas[i],
      distance |-> answer.distances[i]]]

\* the two system prompts of chat, as sequences of their parts
BasePrompt == <<"You are a helpful research assistant. Help users">>
ContextIntro == <<"You are a helpful research assistant. You have access", "CONTEXT FROM DOCUMENTS:\n">>
ContextOutro == <<"\n\nAnswer the user's question based on this context.">>

\* f"[Source: {metadata['filename']}]\n{doc_text}"
ContextPart(answer, i) ==
  <<"[Source: ", answer.metadatas[i].filename, "]\n", answer.documents[i]>>

\* separator.join(parts)
RECURSIVE Join(_, _)
Join(separator, parts) ==
  IF parts = <<>> THEN <<>>
  ELSE IF Len(parts) = 1 THEN parts[1]
  ELSE parts[1] \o <<separator>> \o Join(separator, Tail(parts))

\* the context joined with single line breaks
ContextPromptNoBlankLine(answer) ==
  ContextIntro
    \o Join("\n", [i \in 1 .. Len(answer.documents) |-> ContextPart(answer, i)])
    \o ContextOutro

\* the system prompt with the context of the retrieved chunks
ContextPrompt(answer) ==
  ContextIntro
    \o Join("\n\n", [i \in 1 .. Len(answer.documents) |-> ContextPart(answer, i)])
    \o ContextOutro

QueryIdle == query.op = "none"
others == <<documents_db, collection, uploads, clock, pc, local,
            issued, pre, chain, chunker>>

\* POST /api/search
Search ==
  /\ \E q \in Queries \cup {""}, k \in TopKs :
       LET received == [NoQuery EXCEPT !.op = "search", !.query = q, !.top_k = k,
                                       !.catalog_len = Len(documents_db)]
       IN IF q = ""
          THEN query' = [received EXCEPT !.status = 400]
          ELSE \/ query' = [received EXCEPT !.encode_calls = 1, !.status = 500]
               \/ query' = [received EXCEPT !.encode_calls = 1, !.query_calls = 1,
                                            !.status = 500]
               \/ \E ids \in CollectionQuery(collection, Encode(q), k) :
                    LET answer == AnswerOf(collection, Encode(q), ids)
                    IN query' = [received EXCEPT
                         !.encode_calls = 1, !.query_calls = 1,
                         !.answer = answer,
                         !.results = IF answer.documents # <<>>
                                     THEN FormatResults(answer) ELSE <<>>,
                         !.status = 200]
  /\ started' = started + 1
  /\ UNCHANGED others

\* the messages of a chat request: none, none of the user, or a last user
\* message with the content of a query
ChatMessages == {"none", "no user message"} \cup Queries

\* POST /api/chat, up to the request sent to the model
Chat ==
  /\ \E messages \in ChatMessages, use_rag \in BOOLEAN, api_key \in BOOLEAN :
       LET received == [NoQuery EXCEPT !.op = "chat",
                                       !.catalog_len = Len(documents_db)]
       IN IF messages = "none"
          THEN query' = [received EXCEPT !.status = 400]
          ELSE IF ~api_key
          THEN query' = [received EXCEPT !.status = 500]
          ELSE IF use_rag /\ messages \in Queries /\ Len(documents_db) > 0
          THEN \/ query' = [received EXCEPT !.query = messages, !.encode_calls = 1,
                                            !.status = 500]
               \/ query' = [received EXCEPT !.query = messages, !.encode_calls = 1,
                                            !.query_calls = 1, !.status = 500]
               \/ \E ids \in CollectionQuery(collection, Encode(messages), CHAT_N_RESULTS) :
                    LET answer == AnswerOf(collection, Encode(messages), ids)
                    IN query' = [received EXCEPT
                         !.query = messages, !.top_k = CHAT_N_RESULTS,
                         !.encode_calls = 1, !.query_calls = 1,
                         !.answer = answer,
                         !.system_prompt = IF answer.documents # <<>>
                                           THEN ContextPrompt(answer)
                                           ELSE BasePrompt,
                         !.status = 200]
          ELSE query' = [received EXCEPT !.system_prompt = BasePrompt, !.status = 200]
  /\ started' = started + 1
  /\ UNCHANGED others

\* the response of search or chat has been sent
QueryReturn ==
  /\ ~QueryIdle
  /\ query' = NoQuery
  /\ UNCHANGED <<started, others>>

\* uploads, searches and chats served one at a time
NextQuery ==
  \E p \in {"w1"} :
    \/ AllIdle /\ QueryIdle /\ started < MaxRequests /\ UploadSave(p)
    \/ AllIdle /\ QueryIdle /\ started < MaxRequests /\ Search
    \/ AllIdle /\ QueryIdle /\ started < MaxRequests /\ Chat
    \/ UploadExtract(p)
    \/ UploadAssign(p)
    \/ UploadIndex(p)
    \/ UploadRegister(p)
    \/ Return(p)
    \/ QueryReturn

SpecQuery == Init /\ [][NextQuery]_vars

(* ---------------------------------------------------------------- claims *)
Returned(p, op) == pc[p] = "done" /\ local[p].op = op

\* no two entries of the catalog have the same id
UniqueLive ==
  \A m, n \in 1 .. Len(documents_db) :
    m # n => documents_db[m].id # documents_db[n].id

\* C1: document ids are unique and never reused: no two live catalog entries
\* share an id, and an upload never registers an id that an earlier upload
\* registered, also after that document was deleted.
C1_IdsUniqueNeverReused ==
  /\ []UniqueLive
  /\ [][\A p \in Procs : UploadRegister(p) => local[p].doc_id \notin issued]_vars


\* C2: deletion completeness: once delete_document(id) has answered success,
\* the collection holds no entry whose metadata doc_id is id.
C2_DeletionComplete ==
  \A p \in Procs :
    Returned(p, "delete") /\ local[p].status = 200
      => \A k \in DOMAIN collection : collection[k].doc_id # local[p].doc_id

\* C3: no orphaned embeddings: with no request in progress, every entry of
\* the collection names a document of the catalog by its doc_id, and its
\* chunk_index is below that document's chunk_count.
C3_NoOrphanedEmbeddings ==
  AllIdle =>
    \A k \in DOMAIN collection :
      \E n \in 1 .. Len(documents_db) :
        /\ documents_db[n].id = collection[k].doc_id
        /\ collection[k].chunk_index < documents_db[n].chunk_count

\* the entry was stored by the upload that registered document d
Belongs(entry, d) ==
  /\ entry.doc_id = d.id
  /\ entry.filename = d.filename
  /\ entry.text = d.text_preview

\* the keys doc_<d.id>_chunk_<i> of the collection whose entry belongs to d
KeysOf(d) ==
  {k \in DOMAIN collection : k[2] = d.id /\ Belongs(collection[k], d)}

\* C4: chunk count never drifts: with no request in progress, every document
\* d of the catalog has exactly d.chunk_count keys doc_<d.id>_chunk_<i> in the
\* collection whose entry belongs to d, and they are the keys that
\* delete_document recomputes from chunk_count.
C4_ChunkCountExact ==
  AllIdle =>
    \A n \in 1 .. Len(documents_db) :
      LET d == documents_db[n]
      IN /\ Cardinality(KeysOf(d)) = d.chunk_count
         /\ KeysOf(d) = ChunkIds(d.id, d.chunk_count)

\* C5: a successful upload followed at once by a successful delete of the id
\* it returned leaves count() at its value before the upload.
C5_UploadDeleteRoundTrip ==
  \A p \in Procs :
    (Returned(p, "delete") /\ local[p].status = 200
       /\ chain.id # 0 /\ chain.id = local[p].doc_id)
      => Count(collection) = chain.count

\* the upload of p is past the assignment of its id
Assigned(p) ==
  /\ local[p].op = "upload"
  /\ pc[p] \in {"index", "register", "done"}
  /\ local[p].doc_id # 0

\* the chunk keys the upload of p has handed to collection.add so far
Written(p) == {ChunkId(local[p].doc_id, j) : j \in 0 .. local[p].i - 1}

\* C6: interleaved uploads register pairwise different ids, and no chunk key
\* is written by two of them.
C6_ConcurrentUploadsDistinct ==
  /\ UniqueLive
  /\ \A p, q \in Procs :
       (p # q /\ Assigned(p) /\ Assigned(q)) => Written(p) \cap Written(q) = {}

\* the upload of p has answered an error raised in its indexing loop
IndexingFailed(p) ==
  /\ Returned(p, "upload")
  /\ local[p].status = 500
  /\ local[p].doc_id # 0

\* C7: an upload whose embedding or add fails at chunk j, after chunks
\* 0..j-1 were added, returns its error with the document absent from the
\* catalog and none of its chunk entries in the collection (count() as before
\* the upload).
C7_IndexFailureAllOrNothing ==
  \A p \in Procs :
    IndexingFailed(p)
      => /\ \A n \in 1 .. Len(documents_db) : documents_db[n] # DocMetadata(local[p])
         /\ Written(p) \cap DOMAIN collection = {}
         /\ Count(collection) = Count(pre.index)

\* the upload of p has saved its file and answered an error before indexing:
\* the extractor returned nothing or the chunker no chunk
RejectedBeforeIndexing(p) ==
  /\ Returned(p, "upload")
  /\ local[p].file_path # NoPath
  /\ local[p].status # 201
  /\ local[p].doc_id = 0

\* C8: an upload rejected before indexing (no text extracted, or no chunk)
\* answers an error and leaves the catalog and the collection as they were
\* before the request.
C8_RejectedUploadChangesNothing ==
  \A p \in Procs :
    RejectedBeforeIndexing(p)
      => /\ local[p].status \in {400, 500}
         /\ local[p].error # ""
         /\ documents_db = pre.db
         /\ collection = pre.index

\* an extraction failure answered while the catalog and collection hold a document
C8_Witness ==
  \E p \in Procs :
    /\ RejectedBeforeIndexing(p)
    /\ local[p].error = "Failed to extract text from document"
    /\ documents_db # <<>>
    /\ collection # <<>>

\* C9: an upload that has saved its file and then fails has removed the file
\* from the upload folder when it answers its error.
C9_NoOrphanedFiles ==
  \A p \in Procs :
    (Returned(p, "upload") /\ local[p].file_path # NoPath /\ local[p].status # 201)
      => local[p].file_path \notin uploads

\* C10: delete_document of an id with no catalog entry answers 404 and leaves
\* the catalog, the collection and the upload folder unchanged.
C10_DeleteUnknownIsPureError ==
  \A p \in Procs :
    (Returned(p, "delete") /\ FindDoc(pre.db, local[p].doc_id) = NoDoc)
      => /\ local[p].status = 404
         /\ documents_db = pre.db
         /\ collection = pre.index
         /\ uploads = pre.files

\* a 404 answered while catalog, collection and upload folder are not empty
C10_Witness ==
  \E p \in Procs :
    /\ Returned(p, "delete")
    /\ local[p].status = 404
    /\ documents_db # <<>>
    /\ collection # <<>>
    /\ uploads # {}


\* C16: an error of collection.delete inside delete_document is not
\* swallowed: the request answers an error and the document stays in the
\* catalog.
C16_IndexDeleteErrorSurfaced ==
  \A p \in Procs :
    (Returned(p, "delete") /\ local[p].index_call = "raised")
      => /\ local[p].status # 200
         /\ FindDoc(documents_db, local[p].doc_id) # NoDoc

\* entry d of the catalog is gone after the step
Dropped(d) == \A m \in 1 .. Len(documents_db') : documents_db'[m] # d

\* C19: deletion order: whenever an entry leaves the catalog, a
\* delete_document request for its id has already issued the collection.delete
\* of its chunk keys.
C19_IndexDeleteBeforeCatalogRemove ==
  [][\A n \in 1 .. Len(documents_db) :
       Dropped(documents_db[n])
         => \E p \in Procs :
              /\ local[p].op = "delete"
              /\ local[p].doc_id = documents_db[n].id
              /\ local[p].index_call # "none"]_vars

\* a delete has answered success after its collection.delete went through
C19_Witness ==
  \E p \in Procs :
    /\ Returned(p, "delete")
    /\ local[p].status = 200
    /\ local[p].index_call = "deleted"
    /\ Len(documents_db) < Len(pre.db)

\* C20: no lost registration: an entry leaves the catalog only by the rebind
\* of a delete_document request for its own id, so a registered upload stays
\* registered whatever delete of another id runs beside it.
C20_NoLostRegistration ==
  [][\A n \in 1 .. Len(documents_db) :
       Dropped(documents_db[n])
         => \E p \in Procs :
              /\ pc[p] = "del_rebind"
              /\ pc'[p] = "done"
              /\ local[p].doc_id = documents_db[n].id]_vars

(* --------------------------------------------------- claims on chunk_text *)
Emitted == 1 .. Len(chunker.chunks)
Stride == chunker.chunk_size - chunker.overlap
\* the number of characters two chunks share
Overlap(a, b) ==
  Cardinality({x \in 0 .. Len(chunker.text) :
                 /\ a.start_pos <= x /\ x < a.end_pos
                 /\ b.start_pos <= x /\ x < b.end_pos})

\* C11: every chunk chunk_text emits has 0 <= start_pos < end_pos <= len(text)
\* and its text is exactly the characters of the input from start_pos up to
\* end_pos
C11_ChunkOffsetsFaithful ==
  \A n \in Emitted :
    LET c == chunker.chunks[n]
    IN /\ 0 <= c.start_pos
       /\ c.start_pos < c.end_pos
       /\ c.end_pos <= Len(chunker.text)
       /\ Len(c.text) = c.end_pos - c.start_pos
       /\ \A j \in 1 .. Len(c.text) : c.text[j] = chunker.text[c.start_pos + j]

\* a call that returned several chunks, the last of them cut at the end of the text
C11_Witness ==
  /\ chunker.pc = "returned"
  /\ Len(chunker.chunks) >= 2
  /\ LET c == chunker.chunks[Len(chunker.chunks)]
     IN /\ c.end_pos = Len(chunker.text)
        /\ c.end_pos < c.start_pos + chunker.chunk_size

\* C12 as stated: with overlap O > 0 every pair of consecutive chunks that does
\* not involve the final chunk shares exactly O characters
C12_ConsecutiveOverlapExact ==
  (chunker.pc = "returned" /\ chunker.overlap > 0)
    => \A n \in Emitted :
         n + 1 < Len(chunker.chunks)
           => Overlap(chunker.chunks[n], chunker.chunks[n + 1]) = chunker.overlap

\* two consecutive chunks with no slice dropped between them, the earlier one
\* of full length
FullAndAdjacent(a, b) ==
  /\ b.start_pos = a.start_pos + Stride
  /\ a.end_pos = a.start_pos + chunker.chunk_size

\* C12 amended: starts of consecutive chunks are a positive multiple of
\* chunk_size - overlap apart; with overlap O > 0 a pair shares exactly O
\* characters when no slice was dropped between the two and the earlier chunk
\* has its full length, and fewer than O characters otherwise
C12_OverlapWhereAdjacentAndFull ==
  \A n \in Emitted :
    n < Len(chunker.chunks)
      => LET a == chunker.chunks[n]
             b == chunker.chunks[n + 1]
         IN /\ b.start_pos > a.start_pos
            /\ (b.start_pos - a.start_pos) % Stride = 0
            /\ chunker.overlap > 0
                 => IF FullAndAdjacent(a, b)
                    THEN Overlap(a, b) = chunker.overlap
                    ELSE Overlap(a, b) < chunker.overlap

\* a call that returned a pair sharing exactly O characters and, before the
\* final chunk, a pair sharing fewer
C12_Witness ==
  /\ chunker.pc = "returned"
  /\ chunker.overlap > 0
  /\ \E n \in Emitted :
       /\ n < Len(chunker.chunks)
       /\ Overlap(chunker.chunks[n], chunker.chunks[n + 1]) = chunker.overlap
  /\ \E n \in Emitted :
       /\ n + 1 < Len(chunker.chunks)
       /\ Overlap(chunker.chunks[n], chunker.chunks[n + 1]) < chunker.overlap

\* the cursor positions of the reference algorithm whose window holds a
\* character that is not whitespace
RefStarts ==
  {s \in 0 .. Len(chunker.text) - 1 :
     /\ s % Stride = 0
     /\ \E x \in s + 1 .. Min(s + chunker.chunk_size, Len(chunker.text)) :
          chunker.text[x] \notin Whitespace}

\* the chunks of the documented example
ScenarioChunks ==
  << [text |-> <<"a", "b", "c", "d">>, start_pos |-> 0, end_pos |-> 4],
     [text |-> <<"d", "e", "f", "g">>, start_pos |-> 3, end_pos |-> 7],
     [text |-> <<"g", "h", "i", "j">>, start_pos |-> 6, end_pos |-> 10],
     [text |-> <<"j">>, start_pos |-> 9, end_pos |-> 10] >>

\* C17: what chunk_text returns is what the reference algorithm returns: one
\* chunk for each cursor position 0, C-O, 2(C-O), ... below len(text) whose
\* window is not only whitespace, in increasing order, carrying the window
\* clipped to the text; "abcdefghij" with C = 4, O = 1 gives the four chunks
\* of the example
C17_MatchesReference ==
  chunker.pc = "returned"
    => /\ Len(chunker.chunks) = Cardinality(RefStarts)
       /\ \A n \in Emitted :
            LET c == chunker.chunks[n]
                e == Min(c.start_pos + chunker.chunk_size, Len(chunker.text))
            IN /\ c.start_pos \in RefStarts
               /\ n < Len(chunker.chunks)
                    => c.start_pos < chunker.chunks[n + 1].start_pos
               /\ c.end_pos = e
               /\ c.text = [j \in 1 .. e - c.start_pos |-> chunker.text[c.start_pos + j]]
       /\ (chunker.text = ScenarioText /\ chunker.chunk_size = 4 /\ chunker.overlap = 1)
            => chunker.chunks = ScenarioChunks

\* a call that returned two chunks with a whitespace-only window skipped
\* between them
C17_Witness ==
  /\ chunker.pc = "returned"
  /\ \E n \in Emitted :
       /\ n < Len(chunker.chunks)
       /\ chunker.chunks[n + 1].start_pos > chunker.chunks[n].start_pos + Stride

\* C18: chunk_text terminates: each turn of the loop moves the cursor strictly
\* forward, every call returns with the cursor at or past the end of the
\* text, and the parameters upload_document passes satisfy
\* chunk_size > 0 and 0 <= overlap < chunk_size
C18_ChunkTextTerminates ==
  /\ [][(chunker.pc = "loop" /\ chunker'.pc = "loop")
          => chunker'.start > chunker.start]_vars
  /\ <>(chunker.pc = "returned" /\ chunker.start >= Len(chunker.text))
  /\ [](CHUNK_SIZE > 0 /\ 0 <= CHUNK_OVERLAP /\ CHUNK_OVERLAP < CHUNK_SIZE)

\* the call of upload_document on a text longer than one chunk has returned
C18_Witness ==
  /\ chunker.pc = "returned"
  /\ chunker.chunk_size = CHUNK_SIZE
  /\ chunker.overlap = CHUNK_OVERLAP
  /\ Len(chunker.chunks) >= 2

(* ---------------------------------------------- claims on search and chat *)
\* C13: a search received while the catalog is empty returns no result and
\* calls neither the embedder nor the index
C13_EmptyCatalogShortCircuit ==
  (query.op = "search" /\ query.catalog_len = 0)
    => /\ query.results = <<>>
       /\ query.encode_calls = 0
       /\ query.query_calls = 0

C15_RankingIsTheIndexAnswer ==
  (query.op = "search" /\ query.status = 200)
    => LET n == Len(query.results)
           embedding == Encode(query.query)
       IN /\ n <= query.top_k
          /\ n = Min(query.top_k, Cardinality(DOMAIN collection))
          /\ n = Len(query.answer.ids)
          /\ \A i \in 1 .. n :
               LET e == collection[query.answer.ids[i]]
               IN /\ query.results[i].text = Document(e)
                  /\ query.results[i].metadata = Metadata(e)
                  /\ query.results[i].distance = Distance(embedding, e)
                  /\ i < n => query.results[i].distance <= query.results[i + 1].distance
          /\ \A i, j \in 1 .. n : i < j => query.answer.ids[i] # query.answer.ids[j]

\* a search cut to top_k that returned two chunks of one document, the nearer first
C15_Witness ==
  /\ query.op = "search"
  /\ query.status = 200
  /\ Len(query.results) >= 2
  /\ Len(query.results) < Cardinality(DOMAIN collection)
  /\ query.results[1].metadata.doc_id = query.results[2].metadata.doc_id
  /\ query.results[1].distance < query.results[2].distance


====
